---- MODULE Spec2Model ----
(***************************************************************************)
(* Model of Passport::PanelForm and its private widget PanelForm::Row      *)
(* (Telegram/SourceFiles/passport/passport_panel_form.cpp).                *)
(*                                                                         *)
(* A text (class Text) is represented by its natural width, the width of   *)
(* its single unwrapped line; 0 is the empty text.  All lengths are pixel  *)
(* counts.  Everything runs on the UI thread: one action is one handler,   *)
(* except the fillRows callback, whose two statement groups (lines 227-233 *)
(* and lines 234-235) are consecutive positions of pc.                     *)
(***************************************************************************)
EXTENDS Integers, Sequences, FiniteSets

VARIABLES
    st,             \* the st:: style values the file reads
    listing,        \* controller: the categories fillRows will report
    policyUrl,      \* controller: privacyPolicyUrl()
    defaultWidth,   \* width the toolkit gives a widget not laid out yet
    pc,             \* position of the constructor / "ready": event loop
    index,          \* the local `index` of setupContent (line 222)
    invoked,        \* the fillRows callback invocations made so far
    rows,           \* PanelForm::_rows
    submitHandlers, \* click handlers attached to _submit
    policy,         \* the policy label: text variant and its links
    size,           \* PanelForm width() and height()
    scroll,         \* _scroll geometry
    scrollTop,      \* _scroll->scrollTop()
    submitGeom,     \* _submit geometry
    topShadow,      \* _topShadow: toggled state and geometry
    bottomShadow,   \* _bottomShadow: toggled state and geometry
    last            \* the handler that ran last and what it did

vars == << st, listing, policyUrl, defaultWidth, pc, index, invoked, rows,
           submitHandlers, policy, size, scroll, scrollTop, submitGeom, topShadow,
           bottomShadow, last >>

----------------------------------------------------------------------------
(* Bounds of the model. *)

MaxRows == 2          \* categories the controller reports
MaxWidth == 6         \* widest widget
MaxHeight == 3        \* tallest panel
MaxTextWidth == 2     \* widest text in the row specification
MaxIconWidth == 2     \* widest status icon

Widths == 0..MaxWidth
Heights == 1..MaxHeight
Texts == 0..MaxTextWidth
Urls == {"", "https://policy"}

(* The style values: paddings and gaps are fixed, the two status icons    *)
(* take every combination of widths (equal and unequal sizing).           *)
Styles ==
    [ padLeft : {1}, padRight : {1}, padTop : {1}, padBottom : {1},
      rowSkip : {1}, iconSkip : {1},
      readyIconWidth : 1..MaxIconWidth, emptyIconWidth : 1..MaxIconWidth,
      readyIconHeight : {1}, emptyIconHeight : {1},
      titleLineHeight : {1}, descriptionLineHeight : {1},
      boxWideWidth : {2}, lineWidth : {1}, submitHeight : {1},
      headerHeight : {1}, policyHeight : {1} ]

Max(a, b) == IF a >= b THEN a ELSE b
Min(a, b) == IF a <= b THEN a ELSE b

(* C++ integer division truncates toward zero. *)
CDiv(a, b) == IF a >= 0 THEN a \div b ELSE -((-a) \div b)

----------------------------------------------------------------------------
(* Text *)

(* The fourth constructor argument of both texts (lines 63, 68). *)
minResizeWidth == CDiv(st.boxWideWidth, 2)

(* Text::countHeight: the width is raised to minResizeWidth; a text that  *)
(* fits takes one line (none when empty), otherwise it wraps.             *)
countHeight(text, lineHeight, w) ==
    LET width == IF w < minResizeWidth THEN minResizeWidth ELSE w
    IN  IF text = 0 THEN 0
        ELSE IF width >= text THEN lineHeight
        ELSE lineHeight * ((text + width - 1) \div width)

----------------------------------------------------------------------------
(* PanelForm::Row *)

(* Row::Row: the member initialisers of lines 46-50 and 58-68; the widget *)
(* starts with the geometry w the toolkit gives it.                       *)
Row(title, description, w) ==
    [ title |-> title, description |-> description,
      titleHeight |-> 0, descriptionHeight |-> 0, ready |-> FALSE,
      width |-> w, height |-> 0, handlers |-> << >>, dirty |-> FALSE ]

IconWidth(ready) == IF ready THEN st.readyIconWidth ELSE st.emptyIconWidth
IconHeight(ready) == IF ready THEN st.readyIconHeight ELSE st.emptyIconHeight

countAvailableWidth_emptyIconOnly(row, newWidth) ==
    newWidth - st.padLeft - st.padRight - st.emptyIconWidth - st.iconSkip

countAvailableWidth(row, newWidth) ==
    newWidth - st.padLeft - st.padRight - IconWidth(row.ready) - st.iconSkip

resizeGetHeight_noSkip(row, newWidth) ==
    LET availableWidth == countAvailableWidth(row, newWidth)
        th == countHeight(row.title, st.titleLineHeight, availableWidth)
        dh == countHeight(row.description, st.descriptionLineHeight,
                          availableWidth)
    IN  [ row |-> [row EXCEPT !.titleHeight = th, !.descriptionHeight = dh],
          result |-> st.padTop + th + dh + st.padBottom ]

resizeGetHeight_keepsLarger(row, newWidth) ==
    LET availableWidth == countAvailableWidth(row, newWidth)
        th == Max(row.titleHeight,
                  countHeight(row.title, st.titleLineHeight, availableWidth))
        dh == Max(row.descriptionHeight,
                  countHeight(row.description, st.descriptionLineHeight,
                              availableWidth))
    IN  [ row |-> [row EXCEPT !.titleHeight = th, !.descriptionHeight = dh],
          result |-> st.padTop + th + st.rowSkip + dh + st.padBottom ]

(* Row::resizeGetHeight: caches both heights and returns their sum with   *)
(* the paddings and the gap.                                              *)
resizeGetHeight(row, newWidth) ==
    LET availableWidth == countAvailableWidth(row, newWidth)
        th == countHeight(row.title, st.titleLineHeight, availableWidth)
        dh == countHeight(row.description, st.descriptionLineHeight,
                          availableWidth)
    IN  [ row |-> [row EXCEPT !.titleHeight = th, !.descriptionHeight = dh],
          result |-> st.padTop + th + st.rowSkip + dh + st.padBottom ]

(* TWidget::resizeToWidth (no margins): asks resizeGetHeight, and when    *)
(* the size differs resizes and requests a repaint.                       *)
resizeToWidth(row, newWidth) ==
    LET r == resizeGetHeight(row, newWidth)
        changed == r.row.width # newWidth \/ r.row.height # r.result
    IN  [r.row EXCEPT !.width = newWidth, !.height = r.result,
                      !.dirty = @ \/ changed]

setReady_skipUnchanged(row, ready) ==
    IF row.ready = ready THEN row
    ELSE [resizeToWidth([row EXCEPT !.ready = ready], row.width)
            EXCEPT !.dirty = TRUE]

setReady_noRelayout(row, ready) ==
    [row EXCEPT !.ready = ready, !.dirty = TRUE]

(* Row::setReady *)
setReady(row, ready) ==
    [resizeToWidth([row EXCEPT !.ready = ready], row.width)
        EXCEPT !.dirty = TRUE]

(* What Row::paintEvent draws. *)
paintEvent(row) ==
    [ availableWidth |-> countAvailableWidth(row, row.width),
      titleTop |-> st.padTop,
      descriptionTop |-> st.padTop + row.titleHeight + st.rowSkip,
      bottom |-> st.padTop + row.titleHeight + st.rowSkip
                 + row.descriptionHeight + st.padBottom,
      icon |-> IF row.ready THEN "ready" ELSE "empty",
      iconLeft |-> row.width - st.padRight - IconWidth(row.ready),
      iconTop |-> CDiv(row.height - IconHeight(row.ready), 2) ]

NoPaint ==
    [ availableWidth |-> 0, titleTop |-> 0, descriptionTop |-> 0,
      bottom |-> 0, icon |-> "none", iconLeft |-> 0, iconTop |-> 0 ]

----------------------------------------------------------------------------
(* PanelForm *)

push_front(v, x) == << x >> \o v

(* std::vector::push_back (line 227). *)
push_back(v, x) == Append(v, x)

RowClickHandler_afterIncrement(idx) == [ fn |-> "editScope", arg |-> idx + 1 ]

(* The closure of lines 231-233: _controller by pointer, index by value. *)
RowClickHandler(idx) == [ fn |-> "editScope", arg |-> idx ]

SubmitClickHandler_editScope == [ fn |-> "editScope", arg |-> 0 ]

(* The closure of lines 149-151. *)
SubmitClickHandler == [ fn |-> "submitForm", arg |-> -1 ]

(* A click runs every attached handler, in order of attachment. *)
Clicked(handlers) == handlers

(* The text of the policy label (lines 241-249): the variant with the    *)
(* link command carries link number 1.                                    *)
PolicyText(url) ==
    IF url = "" THEN [ phrase |-> "lng_passport_allow", linkIds |-> {} ]
    ELSE [ phrase |-> "lng_passport_accept_allow", linkIds |-> {1} ]

PolicyLinks_unconditional(url) == { [ id |-> 1, url |-> url ] }

(* The link handlers installed on the policy label (lines 253-255). *)
PolicyLinks(url) ==
    IF url # "" THEN { [ id |-> 1, url |-> url ] } ELSE {}

RECURSIVE SumHeights(_)
SumHeights(rs) ==
    IF rs = << >> THEN 0 ELSE rs[1].height + SumHeights(Tail(rs))

(* Height of the vertical layout in the scroll area: the fixed labels,    *)
(* the rows, the policy label.                                            *)
InnerHeight(rs) == st.headerHeight + SumHeights(rs) + st.policyHeight

(* The scroll area keeps the position inside the scrollable range. *)
ScrollTopMax(rs, scrollHeight) == Max(0, InnerHeight(rs) - scrollHeight)

(* Lines 155-156. *)
TopShadowShown(top) == top > 0

BottomShadowShown_orEqual(top, scrollHeight, innerHeight) ==
    top + scrollHeight <= innerHeight

(* Lines 157-161. *)
BottomShadowShown(top, scrollHeight, innerHeight) ==
    top + scrollHeight < innerHeight

Event(kind, row, arg, calls, prev, paint) ==
    [ kind |-> kind, row |-> row, arg |-> arg, calls |-> calls,
      prevReady |-> prev.ready, paint |-> paint ]

NoRow == Row(0, 0, 0)

RECURSIVE Listings(_, _)
Listings(tuples, n) ==
    IF n = 0 THEN { << >> }
    ELSE { Append(l, t) : l \in Listings(tuples, n - 1), t \in tuples }

(* State at line 222: members constructed, fixed labels added, nothing    *)
(* laid out yet.                                                          *)
InitWith(styles, listings, urls, widths) ==
    /\ st \in styles
    /\ listing \in listings
    /\ policyUrl \in urls
    /\ defaultWidth \in widths
    /\ pc = "fillRows"
    /\ index = 0
    /\ invoked = << >>
    /\ rows = << >>
    /\ submitHandlers = << >>
    /\ policy = [ phrase |-> "none", linkIds |-> {}, links |-> {} ]
    /\ size = [ w |-> 0, h |-> 0 ]
    /\ scroll = [ y |-> 0, w |-> 0, h |-> 0 ]
    /\ scrollTop = 0
    /\ submitGeom = [ y |-> 0, w |-> 0 ]
    /\ topShadow = [ shown |-> TRUE, y |-> 0, w |-> 0 ]
    /\ bottomShadow = [ shown |-> TRUE, y |-> 0, w |-> 0 ]
    /\ last = Event("construct", 0, FALSE, << >>, NoRow, NoPaint)

(* The form: up to MaxRows categories, unequal icons. *)
FormStyles == { s \in Styles : s.readyIconWidth = MaxIconWidth
                               /\ s.emptyIconWidth = 1 }
FormTuples == [ title : {1, MaxTextWidth}, description : {0},
                ready : BOOLEAN ]
FormWidths == {0, MaxWidth}

Init ==
    InitWith(FormStyles,
             UNION { Listings(FormTuples, n) : n \in 0..MaxRows },
             Urls, {MaxWidth - 1})

Geometry == << size, scroll, scrollTop, submitGeom, topShadow, bottomShadow >>
Controller == << st, listing, policyUrl, defaultWidth >>

(* Lines 223-233: the controller invokes the callback with its next       *)
(* category; a Row is appended to _rows and _rows.back() gets its click   *)
(* handler.                                                               *)
FillRowsCallback ==
    /\ pc = "fillRows"
    /\ Len(invoked) < Len(listing)
    /\ LET t == listing[Len(invoked) + 1] IN
        /\ invoked' = Append(invoked, t)
        /\ LET added == push_back(rows,
                              Row(t.title, t.description, defaultWidth))
           IN  rows' = [added EXCEPT ![Len(added)].handlers =
                                        Append(@, RowClickHandler(index))]
        /\ last' = Event("addRow", 0, t.ready, << >>, NoRow,
                         NoPaint)
    /\ pc' = "setReady"
    /\ UNCHANGED << Controller, index, submitHandlers, policy, Geometry >>

(* Lines 234-235: _rows.back()->setReady(ready); ++index. *)
FillRowsSetReady ==
    /\ pc = "setReady"
    /\ LET k == Len(rows) IN
        /\ rows' = [rows EXCEPT ![k] = setReady(@, invoked[k].ready)]
        /\ last' = Event("setReady", k, invoked[k].ready, << >>, rows[k],
                         NoPaint)
    /\ index' = index + 1
    /\ pc' = "fillRows"
    /\ UNCHANGED << Controller, invoked, submitHandlers, policy, Geometry >>

(* fillRows returns: lines 237-257, then 149-161. *)
FinishSetup ==
    /\ pc = "fillRows"
    /\ Len(invoked) = Len(listing)
    /\ policy' = [ phrase |-> PolicyText(policyUrl).phrase,
                   linkIds |-> PolicyText(policyUrl).linkIds,
                   links |-> PolicyLinks(policyUrl) ]
    /\ submitHandlers' = Append(submitHandlers, SubmitClickHandler)
    /\ topShadow' = [topShadow EXCEPT !.shown = TopShadowShown(scrollTop)]
    /\ bottomShadow' = [bottomShadow EXCEPT !.shown =
            BottomShadowShown(scrollTop, scroll.h, InnerHeight(rows))]
    /\ last' = Event("setup", 0, FALSE, << >>, NoRow, NoPaint)
    /\ pc' = "ready"
    /\ UNCHANGED << Controller, index, invoked, rows, size, scroll,
                    scrollTop, submitGeom >>

(* The toggles of lines 155-161 follow their sources. *)
Shadows(top, scrollHeight, rs) ==
    /\ topShadow' = [topShadow EXCEPT !.shown = TopShadowShown(top)]
    /\ bottomShadow' = [bottomShadow EXCEPT !.shown =
            BottomShadowShown(top, scrollHeight, InnerHeight(rs))]

(* A click on row k. *)
RowClick(k) ==
    /\ pc = "ready"
    /\ k \in 1..Len(rows)
    /\ last' = Event("rowClick", k, FALSE, Clicked(rows[k].handlers),
                     rows[k], NoPaint)
    /\ UNCHANGED << Controller, pc, index, invoked, rows, submitHandlers,
                    policy, Geometry >>

(* Activation of the submit control. *)
SubmitClick ==
    /\ pc = "ready"
    /\ last' = Event("submit", 0, FALSE, Clicked(submitHandlers), NoRow,
                     NoPaint)
    /\ UNCHANGED << Controller, pc, index, invoked, rows, submitHandlers,
                    policy, Geometry >>

(* Row::setReady on row k; the layout follows the new row height. *)
RowSetReady(k, b) ==
    /\ pc = "ready"
    /\ k \in 1..Len(rows)
    /\ rows' = [rows EXCEPT ![k] = setReady(@, b)]
    /\ scrollTop' = Min(scrollTop, ScrollTopMax(rows', scroll.h))
    /\ Shadows(scrollTop', scroll.h, rows')
    /\ last' = Event("setReady", k, b, << >>, rows[k], NoPaint)
    /\ UNCHANGED << Controller, pc, index, invoked, submitHandlers, policy,
                    size, scroll, submitGeom >>

(* PanelForm::resizeEvent -> updateControlsGeometry (lines 260-275); a    *)
(* new scroll width reaches the rows through lines 169-172.               *)
PanelResize(w, h) ==
    /\ pc = "ready"
    /\ LET submitTop == h - st.submitHeight IN
        /\ size' = [ w |-> w, h |-> h ]
        /\ scroll' = [ y |-> 0, w |-> w, h |-> submitTop ]
        /\ submitGeom' = [ y |-> submitTop, w |-> w ]
        /\ rows' = IF w # scroll.w
                   THEN [k \in 1..Len(rows) |-> resizeToWidth(rows[k], w)]
                   ELSE rows
        /\ scrollTop' = Min(scrollTop, ScrollTopMax(rows', submitTop))
        /\ topShadow' = [ shown |-> TopShadowShown(scrollTop'),
                          y |-> 0, w |-> w ]
        /\ bottomShadow' =
             [ shown |-> BottomShadowShown(scrollTop', submitTop,
                                           InnerHeight(rows')),
               y |-> submitTop - st.lineWidth, w |-> w ]
    /\ last' = Event("resize", 0, FALSE, << >>, NoRow, NoPaint)
    /\ UNCHANGED << Controller, pc, index, invoked, submitHandlers, policy >>

(* The user scrolls to position y. *)
Scroll(y) ==
    /\ pc = "ready"
    /\ y \in 0..ScrollTopMax(rows, scroll.h)
    /\ y # scrollTop
    /\ scrollTop' = y
    /\ Shadows(y, scroll.h, rows)
    /\ last' = Event("scroll", 0, FALSE, << >>, NoRow, NoPaint)
    /\ UNCHANGED << Controller, pc, index, invoked, rows, submitHandlers,
                    policy, size, scroll, submitGeom >>

(* Row::paintEvent of row k. *)
Paint(k) ==
    /\ pc = "ready"
    /\ k \in 1..Len(rows)
    /\ rows' = [rows EXCEPT ![k].dirty = FALSE]
    /\ last' = Event("paint", k, FALSE, << >>, rows[k], paintEvent(rows[k]))
    /\ UNCHANGED << Controller, pc, index, invoked, submitHandlers, policy,
                    Geometry >>

Next ==
    \/ FillRowsCallback
    \/ FillRowsSetReady
    \/ FinishSetup
    \/ \E k \in 1..MaxRows : RowClick(k)
    \/ SubmitClick
    \/ \E k \in 1..MaxRows, b \in BOOLEAN : RowSetReady(k, b)
    \/ \E w \in FormWidths : PanelResize(w, MaxHeight)
    \/ \E k \in 1..MaxRows : Paint(k)

Spec == Init /\ [][Next]_vars

(* One row with every text, style and width: the layout of Row. *)
RowTuples == [ title : Texts, description : Texts, ready : BOOLEAN ]

InitRow ==
    InitWith(Styles, Listings(RowTuples, 1), {""}, {0, MaxWidth})

NextRow ==
    \/ FillRowsCallback
    \/ FillRowsSetReady
    \/ FinishSetup
    \/ \E b \in BOOLEAN : RowSetReady(1, b)
    \/ \E w \in Widths : PanelResize(w, MaxHeight)
    \/ Paint(1)

SpecRow == InitRow /\ [][NextRow]_vars

(* Scrolling: panel heights and scroll positions. *)
ScrollTuples == [ title : {MaxTextWidth}, description : {0},
                  ready : BOOLEAN ]

InitScroll ==
    InitWith(FormStyles,
             UNION { Listings(ScrollTuples, n) : n \in 0..MaxRows },
             {""}, {MaxWidth - 1})

NextScroll ==
    \/ FillRowsCallback
    \/ FillRowsSetReady
    \/ FinishSetup
    \/ \E k \in 1..MaxRows, b \in BOOLEAN : RowSetReady(k, b)
    \/ \E w \in FormWidths, h \in Heights : PanelResize(w, h)
    \/ \E y \in 0..ScrollTopMax(rows, scroll.h) : Scroll(y)

SpecScroll == InitScroll /\ [][NextScroll]_vars

----------------------------------------------------------------------------
(* What the claims compare the model with. *)

AvailableWidth(w, ready) ==
    w - st.padLeft - st.padRight
      - (IF ready THEN st.readyIconWidth ELSE st.emptyIconWidth)
      - st.iconSkip

TitleHeightAt(row, w, ready) ==
    countHeight(row.title, st.titleLineHeight, AvailableWidth(w, ready))

DescriptionHeightAt(row, w, ready) ==
    countHeight(row.description, st.descriptionLineHeight,
                AvailableWidth(w, ready))

HeightAt(row, w, ready) ==
    st.padTop + TitleHeightAt(row, w, ready) + st.rowSkip
      + DescriptionHeightAt(row, w, ready) + st.padBottom

LaidOut(row, w, ready) ==
    /\ row.titleHeight = TitleHeightAt(row, w, ready)
    /\ row.descriptionHeight = DescriptionHeightAt(row, w, ready)
    /\ row.height = HeightAt(row, w, ready)

(* The ready flag changes the height of this row at its width. *)
ReadyChangesHeight(row) ==
    HeightAt(row, row.width, TRUE) # HeightAt(row, row.width, FALSE)

EditScope(i) == [ fn |-> "editScope", arg |-> i ]
SubmitForm == [ fn |-> "submitForm", arg |-> -1 ]

(* C1: a click on the row made by the i-th callback invocation (0-based)  *)
(* calls editScope(i) and nothing else, whatever rows were created,       *)
(* readied, resized or clicked since; no row click calls submitForm.      *)
C1_RowClickEditsOwnScope ==
    /\ \A k \in 1..Len(rows) :
         Clicked(rows[k].handlers) = << EditScope(k - 1) >>
    /\ last.kind = "rowClick" =>
         last.calls = << EditScope(last.row - 1) >>

C1_Witness ==
    /\ last.kind = "rowClick"
    /\ last.row = 2
    /\ last.calls = << EditScope(1) >>
    /\ rows[1].ready # invoked[1].ready
    /\ rows[2].ready # invoked[2].ready
    /\ size.w = MaxWidth

(* C2: _rows has one row per callback invocation, the k-th row built from *)
(* the k-th invocation's title and description, and when setupContent     *)
(* returns the k-th row's ready flag is the k-th invocation's ready.      *)
C2_RowsFollowInvocations ==
    /\ pc \in {"fillRows", "ready"} =>
         /\ Len(rows) = Len(invoked)
         /\ \A k \in 1..Len(rows) :
              /\ rows[k].title = invoked[k].title
              /\ rows[k].description = invoked[k].description
    /\ pc = "fillRows" \/ last.kind = "setup" =>
         \A k \in 1..Len(rows) : rows[k].ready = invoked[k].ready
    /\ pc = "ready" => invoked = listing

C2_Witness ==
    /\ last.kind = "setup"
    /\ Len(rows) = 2
    /\ invoked[1].title # invoked[2].title
    /\ invoked[1].ready # invoked[2].ready

(* C3: resizeGetHeight(newWidth) returns top padding + title height + gap *)
(* + description height + bottom padding, the heights wrapped at          *)
(* newWidth - paddings - the current flag's icon width - icon gap, caches *)
(* those heights, and leaves the ready flag alone; the result is the same *)
(* whatever the row had cached before.                                    *)
C3_ResizeGetHeight ==
    /\ \A k \in 1..Len(rows), w \in Widths :
         LET r == resizeGetHeight(rows[k], w) IN
           /\ r.result = HeightAt(rows[k], w, rows[k].ready)
           /\ r.row.titleHeight = TitleHeightAt(rows[k], w, rows[k].ready)
           /\ r.row.descriptionHeight =
                DescriptionHeightAt(rows[k], w, rows[k].ready)
           /\ r.row.ready = rows[k].ready
           /\ r.result = resizeGetHeight(
                  [Row(rows[k].title, rows[k].description, 0)
                      EXCEPT !.ready = rows[k].ready], w).result
    /\ last.kind = "resize" =>
         \A k \in 1..Len(rows) :
           rows[k].height = HeightAt(rows[k], rows[k].width, rows[k].ready)

C3_Witness ==
    /\ last.kind = "resize"
    /\ Len(rows) = 1
    /\ rows[1].ready
    /\ rows[1].width = size.w
    /\ rows[1].width # defaultWidth
    /\ ReadyChangesHeight(rows[1])

(* C4: a new Row is not ready; setReady(b) sets the flag to b, lays the   *)
(* row out at its current width and requests a repaint, also when b is    *)
(* the flag it had; a second setReady(b) changes nothing.                 *)
C4_SetReady ==
    /\ pc = "setReady" => ~rows[Len(rows)].ready
    /\ last.kind = "setReady" =>
         LET row == rows[last.row] IN
           /\ row.ready = last.arg
           /\ LaidOut(row, row.width, last.arg)
           /\ row.dirty
    /\ \A k \in 1..Len(rows), b \in BOOLEAN :
         LET once == setReady(rows[k], b) IN
           /\ once.width = rows[k].width
           /\ setReady(once, b) = once

C4_Witness ==
    /\ pc = "ready"
    /\ last.kind = "setReady"
    /\ last.arg = last.prevReady
    /\ rows[last.row].ready = last.arg
    /\ rows[last.row].title > 0

(* C5: with title, description and width unchanged, setReady(false);      *)
(* setReady(true); setReady(false) ends with the heights the first        *)
(* setReady(false) gave, and in between the heights are those of the      *)
(* available width that subtracts the ready icon.                         *)
C5_ToggleRestoresHeight ==
    /\ \A k \in 1..Len(rows) :
         LET a == setReady(rows[k], FALSE)
             b == setReady(a, TRUE)
             c == setReady(b, FALSE)
         IN  /\ c.height = a.height
             /\ c.titleHeight = a.titleHeight
             /\ c.descriptionHeight = a.descriptionHeight
             /\ c.width = rows[k].width
             /\ LaidOut(b, rows[k].width, TRUE)
    /\ last.kind = "setReady" =>
         LaidOut(rows[last.row], rows[last.row].width, last.arg)

C5_Witness ==
    /\ pc = "ready"
    /\ last.kind = "setReady"
    /\ ~last.arg
    /\ last.prevReady
    /\ ~invoked[last.row].ready
    /\ ReadyChangesHeight(rows[last.row])
    /\ LaidOut(rows[last.row], rows[last.row].width, FALSE)

C7_SubmitCallsSubmitForm ==
    /\ pc = "ready" => Clicked(submitHandlers) = << SubmitForm >>
    /\ last.kind = "submit" => last.calls = << SubmitForm >>
    /\ listing = << >> =>
         /\ rows = << >>
         /\ \A i \in 1..Len(last.calls) : last.calls[i].fn # "editScope"

C7_Witness ==
    /\ last.kind = "submit"
    /\ last.calls = << SubmitForm >>
    /\ listing = << >>
    /\ rows = << >>

(* C8: the policy label has a link exactly when privacyPolicyUrl() is not *)
(* empty, the link leads to that URL, and the text is the variant with a  *)
(* link exactly when the link handler is installed.                       *)
C8_PolicyLink ==
    pc = "ready" =>
      /\ policy.links # {} <=> policyUrl # ""
      /\ policyUrl # "" =>
           /\ policy.phrase = "lng_passport_accept_allow"
           /\ policy.links = { [ id |-> 1, url |-> policyUrl ] }
      /\ policyUrl = "" =>
           /\ policy.phrase = "lng_passport_allow"
           /\ policy.links = {}
      /\ { l.id : l \in policy.links } = policy.linkIds

C8_Witness ==
    /\ pc = "ready"
    /\ policyUrl # ""
    /\ policy.phrase = "lng_passport_accept_allow"
    /\ \E l \in policy.links : l.url = policyUrl

(* C9: whenever a row is painted its cached heights are the wrapped       *)
(* heights at the available width of its current width and ready flag,    *)
(* the width the text is drawn with; the description is drawn at top      *)
(* padding + cached title height + gap; the icon is the ready icon        *)
(* exactly when the row is ready.                                         *)
C9_PaintUsesCurrentLayout ==
    /\ pc = "ready" =>
         \A k \in 1..Len(rows) :
           /\ LaidOut(rows[k], rows[k].width, rows[k].ready)
           /\ paintEvent(rows[k]).descriptionTop =
                st.padTop + TitleHeightAt(rows[k], rows[k].width,
                                          rows[k].ready) + st.rowSkip
    /\ last.kind = "paint" =>
         LET row == rows[last.row] IN
           /\ last.paint.availableWidth =
                AvailableWidth(row.width, row.ready)
           /\ last.paint.titleTop = st.padTop
           /\ last.paint.descriptionTop =
                st.padTop + TitleHeightAt(row, row.width, row.ready)
                  + st.rowSkip
           /\ last.paint.bottom = row.height
           /\ last.paint.icon = "ready" <=> row.ready
           /\ last.paint.icon = "empty" <=> ~row.ready

C9_Witness ==
    /\ last.kind = "paint"
    /\ rows[1].ready
    /\ ~invoked[1].ready
    /\ rows[1].width # defaultWidth
    /\ ReadyChangesHeight(rows[1])
    /\ last.paint.icon = "ready"

(* C10: the top shadow is on exactly when the scroll position is above 0, *)
(* the bottom shadow exactly when scroll position + scroll area height is *)
(* below the inner content height; once the panel was resized the scroll  *)
(* area spans [0, height - submit height), the submit button starts at    *)
(* height - submit height and the bottom shadow one line width above it.  *)
C10_ShadowsAndGeometry ==
    pc = "ready" =>
      /\ topShadow.shown <=> scrollTop > 0
      /\ bottomShadow.shown <=>
           scrollTop + scroll.h < InnerHeight(rows)
      /\ size.h > 0 =>
           /\ scroll.y = 0
           /\ scroll.y + scroll.h = size.h - st.submitHeight
           /\ submitGeom.y = size.h - st.submitHeight
           /\ bottomShadow.y = submitGeom.y - st.lineWidth
           /\ topShadow.y = 0

C10_Witness ==
    /\ last.kind = "scroll"
    /\ size.h = MaxHeight
    /\ scrollTop > 0
    /\ scrollTop + scroll.h = InnerHeight(rows)
    /\ topShadow.shown
    /\ ~bottomShadow.shown

====
